---- MODULE Spec2Model ----
\* Model of flax/core/lift.py: scope-tree deduplication / reduplication,
\* the pack adapter, and the batch-size / scan-length inference of vmap / scan.
EXTENDS Integers, Naturals, Sequences, FiniteSets, TLC

\* ------------------------------------------------------------------
\* Outer scope tree (an arena of scopes; 0 stands for None).
\*   1 = root "r", 2 = r.a, 3 = r.a.b, 4 = r.c, 5 = second root "s"
\* ------------------------------------------------------------------
OuterNodes == 1..5
OuterParent == <<0, 1, 2, 1, 0>>
OuterName == <<"r", "a", "b", "c", "s">>

\* Bound on the number of scope handles in one flattened scope tree.
MaxHandles == 3

Range(s) == {s[i] : i \in DOMAIN s}
InSeq(x, s) == \E i \in 1..Len(s) : s[i] = x
Remove(s, x) == SelectSeq(s, LAMBDA y : y # x)
Reverse(s) == [i \in 1..Len(s) |-> s[Len(s) - i + 1]]
SeqsUpTo(S, n) == UNION {[1..k -> S] : k \in 0..n}

\* collections.OrderedDict((s, ()) for s in scopes): first-insertion order
RECURSIVE UniqAcc(_, _)
UniqAcc(s, acc) ==
  IF s = <<>> THEN acc
  ELSE UniqAcc(Tail(s), IF InSeq(Head(s), acc) THEN acc ELSE Append(acc, Head(s)))
OrderedSet(s) == UniqAcc(s, <<>>)

\* the `while scope is not None` loop of _dedup_scopes
RECURSIVE DedupWalk(_, _, _, _, _, _, _)
DedupWalk(par, nm, ms, scope, path, mp, mpp) ==
  IF scope = 0 THEN <<mp, mpp>>
  ELSE DedupWalk(par, nm, ms, par[scope], Append(path, nm[scope]),
                 IF InSeq(scope, ms) THEN scope ELSE mp,
                 IF InSeq(scope, ms) THEN Reverse(path) ELSE mpp)

\* the `for leaf in scopes` loop of _dedup_scopes; `del minimal_set[leaf]`
\* raises KeyError when leaf has already been deleted (ok = FALSE)
RECURSIVE DedupLoop(_, _, _, _, _)
DedupLoop(par, nm, leaves, ms, paths) ==
  IF leaves = <<>> THEN [ok |-> TRUE, roots |-> ms, paths |-> paths]
  ELSE
    LET leaf == Head(leaves)
        r == DedupWalk(par, nm, ms, par[leaf], <<nm[leaf]>>, leaf, <<>>)
    IN IF r[1] # leaf /\ ~InSeq(leaf, ms)
       THEN [ok |-> FALSE, roots |-> ms, paths |-> paths]
       ELSE DedupLoop(par, nm, Tail(leaves),
                      IF r[1] # leaf THEN Remove(ms, leaf) ELSE ms,
                      Append(paths, r))

_dedup_scopes(par, nm, scopes) == DedupLoop(par, nm, scopes, OrderedSet(scopes), <<>>)

NoDedup == [ok |-> TRUE, roots |-> <<>>, paths |-> <<>>]

\* ------------------------------------------------------------------
\* Inner (synthetic) scopes: an arena of records [name, parent, valid]
\* ------------------------------------------------------------------
EmptyVars == [c \in {} |-> 0]

\* Scope.push(name, reuse=True): the same-named child if it exists, else a new one
Push(arena, s, name) ==
  IF \E j \in 1..Len(arena) : arena[j].parent = s /\ arena[j].name = name
  THEN <<arena, CHOOSE j \in 1..Len(arena) : arena[j].parent = s /\ arena[j].name = name>>
  ELSE <<Append(arena, [name |-> name, parent |-> s, valid |-> TRUE, gen |-> arena[s].gen,
                        vs |-> EmptyVars, mut |-> {}]), Len(arena) + 1>>

\* `for name in path: scope = scope.push(name, reuse=True)`
RECURSIVE PushPath(_, _, _)
PushPath(arena, s, path) ==
  IF path = <<>> THEN <<arena, s>>
  ELSE LET r == Push(arena, s, Head(path)) IN PushPath(r[1], r[2], Tail(path))

\* mapping[root] with mapping = dict(zip(orig_scopes, scopes))
MapRoot(orig, scopes, root) == scopes[CHOOSE i \in 1..Len(orig) : orig[i] = root]

RECURSIVE DupLoop(_, _, _, _, _)
DupLoop(arena, orig, scopes, paths, acc) ==
  IF paths = <<>> THEN <<arena, acc>>
  ELSE LET r == PushPath(arena, MapRoot(orig, scopes, Head(paths)[1]), Head(paths)[2])
       IN DupLoop(r[1], orig, scopes, Tail(paths), Append(acc, r[2]))

_dup_scopes(arena, orig, scopes, paths) == DupLoop(arena, orig, scopes, paths, <<>>)

\* one fresh inner root Scope(variables, name=scope.name, rngs=rngs,
\* mutable=scope_mutable, parent=None) per canonical scope
NewRoot(name, gen, vs, mut) ==
  [name |-> name, parent |-> 0, valid |-> TRUE, gen |-> gen, vs |-> vs, mut |-> mut]
FreshRoots(arena, roots, gen, vsf, mut) ==
  <<arena \o [i \in 1..Len(roots) |-> NewRoot(OuterName[roots[i]], gen, vsf[i], mut)],
    [i \in 1..Len(roots) |-> Len(arena) + i]>>

InnerParents(ar) == [j \in 1..Len(ar) |-> ar[j].parent]
InnerNames(ar) == [j \in 1..Len(ar) |-> ar[j].name]

\* ------------------------------------------------------------------
\* Variable collections and PRNG streams
\* ------------------------------------------------------------------
Cols == {"params", "stats"}
RngKinds == {"params", "dropout"}
Vals == {0, 1}

\* scope.root.mutable of the outer root
OuterRootMutable == Cols

\* scope.group_collections(xs, col_filters): one group per filter, each
\* collection in the group of the first filter it matches
RECURSIVE GroupLoop(_, _, _, _)
GroupLoop(xs, cols, filters, acc) ==
  IF filters = <<>> THEN acc
  ELSE LET g == {c \in cols : c \in Head(filters)}
       IN GroupLoop(xs, cols \ g, Tail(filters), Append(acc, [c \in g |-> xs[c]]))
group_collections(xs, filters) == GroupLoop(xs, DOMAIN xs, filters, <<>>)

\* scope.union_filters over all out_variable_filters
UnionFilters(fs) == UNION {fs[i] : i \in 1..Len(fs)}

NoRepack == [err |-> {}, ok |-> FALSE, groups |-> <<>>]

VARIABLES
  dIn,     \* the flattened scope handles passed to _dedup_scopes
  dRes,    \* its result (roots, paths) or the KeyError
  dPhase,  \* "init" before the call, "done" after it, "dup" after reduplication
  arena,   \* the inner scopes created so far
  dupOut,  \* the inner scopes returned by _dup_scopes, one per handle
  \* --- one call of a packed function (pack.wrapper) ---
  pc,        \* "idle", "enter", "payload" (fn runs), "done", "raised" (fn or pack
             \* raised) or "wbraised" (a put_variable of the write-back raised)
  pIn,       \* flattened scope handles of the scope tree argument
  InF,       \* in_variable_filters
  OutF,      \* out_variable_filters
  RngF,      \* rng_filters
  pRoots,    \* canonical scopes (scopes after _dedup_scopes)
  pPaths,    \* their paths
  vg,        \* variable_groups_xs handed to fn
  rngCount,  \* number of make_rng calls per outer scope and stream
  cur,       \* the nonlocal inner_scopes of scope_fn
  calls,     \* number of scope_fn calls so far
  puts,      \* number of writes the payload made through inner scopes
  repOut,    \* result of the last repack call
  repCount,  \* number of repack calls
  oVal,      \* outer collections' values
  writes,    \* put_variable calls issued on outer scopes: <<scope, collection>>
  \* --- axis size inference of vmap.inner / scan.inner ---
  axMode,    \* "vmap" or "scan"
  axArgs,    \* args: each argument a pytree given by its leaves' sizes on axis 0
  axInAxes,  \* in_axes: [all |-> TRUE, ax |-> a] for a single axis, or per argument
  axVars,    \* the variable groups of the scope: leaves' sizes per group
  axVarAxes, \* variable_in_axes, one per group
  axSize,    \* axis_size / length argument (0 stands for None)
  axRes,     \* the determined size or the error raised, and the derived quantities
  \* --- rng handling of pack.wrapper and vmap.inner / scan.inner ---
  rFlags,    \* the split flags of split_rngs (its keys are RngF)
  rN,        \* d_axis_size / d_length
  rGroups,   \* rng_groups_xs: per canonical scope, per group, stream -> generator
  rPer,      \* per canonical scope and stream: the generator seen at each index
  rootMut,   \* scope.root.mutable of the outer root (the mutable filter of apply)
  \* --- one call of a function lifted by scan (broadcast "params", carry "stats") ---
  scPhase,   \* "idle", "enter", "loop", "done"
  scLen,     \* loop length
  scRev,     \* reverse
  scHasP,    \* whether the outer scope holds the broadcast collection
  scI,       \* iterations run so far
  scBIn,     \* broadcast_vars fed to every iteration
  scCarry,   \* carry_vars threaded through the iterations
  scBFirst,  \* broadcast output of the body (lifted out of the loop by axes_scan)
  scBSame,   \* every iteration's broadcast output has its input's collections
  scSeen,    \* carry value seen by the iteration at each xs index
  scBWritten,\* whether the body ever wrote the broadcast collection
  scFinalB,  \* the broadcast group scan.inner returns to pack
  scBSup,    \* every iteration's broadcast output contains its input's collections
  scV0,      \* the carry collection's value before the call
  \* --- one call of transform_module / transform (target "params") ---
  tPhase,    \* "idle", "enter", "run1", "run2", "done", "raised"
  tDirect,   \* transform called directly (init given) or through transform_module
  tInit,     \* the init flag
  tMutable,  \* the mutable flag
  tV,        \* the variables filter
  tOuter,    \* the outer scope's collections: name -> value (0 is an empty dict)
  tOuter0,   \* the outer scope's collections before the call
  tRuns,     \* payload runs so far
  tTarget,   \* `target` of transform's wrapper
  tVarsPack, \* `variables` of transform's wrapper (from pack)
  tIn,       \* per run: the (target, variables) groups the payload's scope was built from
  tRep1,     \* target group repacked after the init run
  tOutT,     \* target group repacked after the last run
  tSwap      \* the transform is swap_collection('params', 'stats')

vars == <<dIn, dRes, dPhase, arena, dupOut, pc, pIn, InF, OutF, RngF, pRoots, pPaths,
          vg, rngCount, cur, calls, puts, repOut, repCount, oVal, writes,
          axMode, axArgs, axInAxes, axVars, axVarAxes, axSize, axRes,
          rFlags, rN, rGroups, rPer, rootMut,
          scPhase, scLen, scRev, scHasP, scI, scBIn, scCarry, scBFirst, scBSame, scSeen,
          scBWritten, scFinalB, scBSup, scV0,
          tPhase, tDirect, tInit, tMutable, tV, tOuter, tOuter0, tRuns, tTarget, tVarsPack,
          tIn, tRep1, tOutT, tSwap>>

packVars == <<pc, pIn, InF, OutF, RngF, pRoots, pPaths, vg, rngCount, cur, calls, puts,
              repOut, repCount, oVal, writes>>
dedupVars == <<dIn, dRes, dPhase, dupOut>>
axVarsT == <<axMode, axArgs, axInAxes, axVars, axVarAxes, axSize, axRes>>

rngVarsT == <<rFlags, rN, rGroups, rPer>>
scanVarsT == <<scPhase, scLen, scRev, scHasP, scI, scBIn, scCarry, scBFirst, scBSame, scSeen,
               scBWritten, scFinalB, scBSup, scV0>>
trVarsT == <<tPhase, tDirect, tInit, tMutable, tV, tOuter, tOuter0, tRuns, tTarget, tVarsPack,
             tIn, tRep1, tOutT, tSwap>>
extVars == <<rootMut, scanVarsT, trVarsT>>
TrIdle ==
  /\ tPhase = "idle" /\ tDirect = FALSE /\ tInit = FALSE /\ tMutable = FALSE /\ tV = {}
  /\ tOuter = EmptyVars /\ tOuter0 = EmptyVars /\ tRuns = 0 /\ tTarget = EmptyVars
  /\ tVarsPack = EmptyVars /\ tIn = <<>> /\ tRep1 = EmptyVars /\ tOutT = EmptyVars
  /\ tSwap = FALSE
ScanIdle ==
  /\ scPhase = "idle" /\ scLen = 0 /\ scRev = FALSE /\ scHasP = FALSE /\ scI = 0
  /\ scBIn = EmptyVars /\ scCarry = EmptyVars /\ scBFirst = EmptyVars /\ scBSame = TRUE
  /\ scSeen = <<>> /\ scBWritten = FALSE /\ scFinalB = EmptyVars /\ scBSup = TRUE /\ scV0 = 0
ExtIdle == rootMut = OuterRootMutable /\ ScanIdle /\ TrIdle
RngIdle == rFlags = <<>> /\ rN = 0 /\ rGroups = <<>> /\ rPer = <<>>

NoAxRes == [kind |-> "none", size |-> 0, found |-> {}, iters |-> 0, splits |-> 0]

AxIdle ==
  /\ axMode = "vmap" /\ axArgs = <<>> /\ axInAxes = [all |-> TRUE, ax |-> 0]
  /\ axVars = <<>> /\ axVarAxes = <<>> /\ axSize = 0 /\ axRes = NoAxRes

PackIdle ==
  /\ pc = "idle" /\ pIn = <<>> /\ InF = <<>> /\ OutF = <<>> /\ RngF = <<>>
  /\ pRoots = <<>> /\ pPaths = <<>> /\ vg = <<>>
  /\ rngCount = [n \in OuterNodes |-> [k \in RngKinds |-> 0]]
  /\ cur = <<>> /\ calls = 0 /\ puts = 0 /\ repOut = NoRepack /\ repCount = 0
  /\ oVal = [n \in OuterNodes |-> [c \in Cols |-> 0]] /\ writes = {}

\* ------------------------------------------------------------------
\* Specification of _dedup_scopes on the outer tree
\* ------------------------------------------------------------------
InitDedup ==
  /\ dIn \in SeqsUpTo(OuterNodes, MaxHandles)
  /\ dRes = NoDedup
  /\ dPhase = "init"
  /\ arena = <<>>
  /\ dupOut = <<>>
  /\ PackIdle
  /\ AxIdle
  /\ RngIdle
  /\ ExtIdle

DedupRun ==
  /\ dPhase = "init"
  /\ dRes' = _dedup_scopes(OuterParent, OuterName, dIn)
  /\ dPhase' = "done"
  /\ UNCHANGED <<dIn, arena, dupOut>>
  /\ UNCHANGED packVars
  /\ UNCHANGED extVars
  /\ UNCHANGED axVarsT
  /\ UNCHANGED rngVarsT

\* reduplication against freshly created roots with the recorded paths
DupRun ==
  /\ dPhase = "done"
  /\ dRes.ok
  /\ LET f == FreshRoots(arena, dRes.roots, 1, [i \in 1..Len(dRes.roots) |-> EmptyVars], {})
         d == _dup_scopes(f[1], dRes.roots, f[2], dRes.paths)
     IN /\ arena' = d[1]
        /\ dupOut' = d[2]
  /\ dPhase' = "dup"
  /\ UNCHANGED <<dIn, dRes>>
  /\ UNCHANGED packVars
  /\ UNCHANGED extVars
  /\ UNCHANGED axVarsT
  /\ UNCHANGED rngVarsT

NextDedup == DedupRun \/ DupRun

SpecDedup == InitDedup /\ [][NextDedup]_vars

\* ------------------------------------------------------------------
\* Reference notions for the claims (independent of the code's loop)
\* ------------------------------------------------------------------
RECURSIVE ProperAnc(_, _, _)
ProperAnc(par, a, d) == par[d] # 0 /\ (par[d] = a \/ ProperAnc(par, a, par[d]))

RECURSIVE NamePath(_, _, _, _)
NamePath(par, nm, a, h) == IF a = h THEN <<>> ELSE Append(NamePath(par, nm, a, par[h]), nm[h])

ExpectedRoots(par, in) ==
  SelectSeq(OrderedSet(in), LAMBDA s : ~\E j \in 1..Len(in) : ProperAnc(par, in[j], s))

HighestIn(par, in, h) ==
  CHOOSE a \in Range(in) : (a = h \/ ProperAnc(par, a, h))
                           /\ ~\E b \in Range(in) : ProperAnc(par, b, a)

ExpectedPaths(par, nm, in) ==
  [i \in 1..Len(in) |-> <<HighestIn(par, in, in[i]),
                          NamePath(par, nm, HighestIn(par, in, in[i]), in[i])>>]

\* C1: for every input list, _dedup_scopes returns (without raising) as roots the
\* input scopes with no proper ancestor in the input, once each in first-insertion
\* order, and for each handle the pair (highest input ancestor, child-name path).
C1_DedupContract ==
  dPhase # "init" =>
    /\ dRes.ok
    /\ dRes.roots = ExpectedRoots(OuterParent, dIn)
    /\ dRes.paths = ExpectedPaths(OuterParent, OuterName, dIn)

RECURSIVE InnerNamePath(_, _)
InnerNamePath(ar, x) ==
  IF ar[x].parent = 0 THEN <<ar[x].name>>
  ELSE Append(InnerNamePath(ar, ar[x].parent), ar[x].name)

\* C2: dedup followed by dup against fresh roots (same names) gives, for each of
\* the N handles in order, a scope with the same name and the same chain of
\* names from its canonical root; equal handles map to equal scopes and
\* parent/child handles to parent/child scopes.
C2_DedupDupRoundTrip ==
  dPhase # "init" =>
    /\ dRes.ok
    /\ dPhase = "dup" =>
         /\ Len(dupOut) = Len(dIn)
         /\ \A i \in 1..Len(dIn) :
              /\ arena[dupOut[i]].name = OuterName[dIn[i]]
              /\ InnerNamePath(arena, dupOut[i])
                   = <<OuterName[HighestIn(OuterParent, dIn, dIn[i])]>>
                     \o NamePath(OuterParent, OuterName, HighestIn(OuterParent, dIn, dIn[i]), dIn[i])
         /\ \A i, j \in 1..Len(dIn) :
              /\ dIn[i] = dIn[j] => dupOut[i] = dupOut[j]
              /\ OuterParent[dIn[j]] = dIn[i] => arena[dupOut[j]].parent = dupOut[i]

\* ------------------------------------------------------------------
\* The pack adapter: one call of the wrapper returned by pack
\* ------------------------------------------------------------------
\* Bounds on what the payload fn does during one call.
MaxPackHandles == 2
MaxCalls == 2
MaxPuts == 1
MaxRepacks == 2

\* scope._variables of an outer canonical scope: collections outside the root's
\* mutable filter are held as FrozenDicts (apply keeps immutable collections frozen)
OuterVars(n) == [c \in Cols |-> [v |-> oVal[n][c], fz |-> c \notin rootMut]]

InnerMutableMutant(rm, out) == UnionFilters(out)

\* scope_mutable = intersect_filters(scope.root.mutable, union of out filters)
InnerMutable(rm, out) == rm \cap UnionFilters(out)

FreezeInOnlyMutant(groups, out) ==
  [g \in 1..Len(groups) |->
     [c \in DOMAIN groups[g] |->
        IF \E f \in 1..Len(out) : c \in out[f]
        THEN [groups[g][c] EXCEPT !.fz = TRUE] ELSE groups[g][c]]]

\* `variable_group[col_name] = freeze(collection)` for in-only collections
FreezeInOnly(groups, out) ==
  [g \in 1..Len(groups) |->
     [c \in DOMAIN groups[g] |->
        IF \E f \in 1..Len(out) : c \in out[f]
        THEN groups[g][c] ELSE [groups[g][c] EXCEPT !.fz = TRUE]]]

\* variable_groups_xs of pack.wrapper
PackGroups(roots, in, out) ==
  [i \in 1..Len(roots) |-> FreezeInOnly(group_collections(OuterVars(roots[i]), in), out)]

\* the scopes whose rngs pack.wrapper derives with make_rng
RngScopes(roots, handles) == roots

\* make_rng calls of pack.wrapper: once per kind of each rng group of each scope
MakeRngCounts(scopes, rf) ==
  [n \in OuterNodes |->
     [k \in RngKinds |->
        LET gs == group_collections([q \in RngKinds |-> 0], rf)
        IN Cardinality({<<i, g>> \in (1..Len(scopes)) \X (1..Len(gs)) :
                           scopes[i] = n /\ k \in DOMAIN gs[g]})]]

\* inner_scope.invalidate() for every scope of a list
Invalidate(ar, ids) ==
  [j \in 1..Len(ar) |-> IF j \in Range(ids) THEN [ar[j] EXCEPT !.valid = FALSE] ELSE ar[j]]

\* the root of an inner scope (where its variables live)
RECURSIVE RootOf(_, _)
RootOf(ar, x) == IF ar[x].parent = 0 THEN x ELSE RootOf(ar, ar[x].parent)

\* `variables.update(variable_group)` for every group; the payload may have
\* unfrozen some collections before passing them to scope_fn (as transform does)
MergeGroups(gs, unfr) ==
  LET dom == UNION {DOMAIN gs[g] : g \in 1..Len(gs)}
      last(c) == CHOOSE g \in 1..Len(gs) : c \in DOMAIN gs[g]
                   /\ \A h \in 1..Len(gs) : c \in DOMAIN gs[h] => h <= g
  IN [c \in dom |-> IF c \in unfr THEN [gs[last(c)][c] EXCEPT !.fz = FALSE]
                    ELSE gs[last(c)][c]]

InitPackCommon ==
  /\ dIn = <<>> /\ dRes = NoDedup /\ dPhase = "init" /\ dupOut = <<>>
  /\ arena = <<>>
  /\ pc = "enter"
  /\ pIn \in SeqsUpTo(OuterNodes, MaxPackHandles) \ {<<>>}
  /\ InF \in {<<{"params"}, {"stats"}>>, <<Cols>>}
  /\ OutF \in {<<{"params"}, {"stats"}>>, <<{"params"}>>, <<{}, {"stats"}>>}
  /\ RngF \in {<<{"params"}>>, <<{"params"}, RngKinds>>}
  /\ pRoots = <<>> /\ pPaths = <<>> /\ vg = <<>>
  /\ rngCount = [n \in OuterNodes |-> [k \in RngKinds |-> 0]]
  /\ cur = <<>> /\ calls = 0 /\ puts = 0 /\ repOut = NoRepack /\ repCount = 0
  /\ oVal = [n \in OuterNodes |-> [c \in Cols |-> 0]] /\ writes = {}
  /\ AxIdle
  /\ RngIdle

InitPack == InitPackCommon /\ ExtIdle

\* pack calls under apply with a restricted mutable filter
InitPackMut == InitPackCommon /\ rootMut \in {Cols, {"stats"}} /\ ScanIdle /\ TrIdle

\* pack.wrapper up to the call of fn: dedup, grouping, freezing, make_rng
PackEnter ==
  /\ pc = "enter"
  /\ LET d == _dedup_scopes(OuterParent, OuterName, pIn)
     IN IF ~d.ok
        THEN /\ pc' = "raised"
             /\ UNCHANGED <<pRoots, pPaths, vg, rngCount>>
        ELSE /\ pRoots' = d.roots
             /\ pPaths' = d.paths
             /\ vg' = PackGroups(d.roots, InF, OutF)
             /\ rngCount' = MakeRngCounts(RngScopes(d.roots, pIn), RngF)
             /\ pc' = "payload"
  /\ UNCHANGED <<pIn, InF, OutF, RngF, arena, cur, calls, puts, repOut, repCount,
                 oVal, writes>>
  /\ UNCHANGED dedupVars
  /\ UNCHANGED extVars
  /\ UNCHANGED axVarsT
  /\ UNCHANGED rngVarsT

\* the payload calls scope_fn(variable_groups_xs, rng_groups_xs)
ScopeFn(unfr) ==
  /\ pc = "payload"
  /\ repOut.err = {}
  /\ calls < MaxCalls
  /\ LET a1 == Invalidate(arena, cur)
         mut == InnerMutable(rootMut, OutF)
         f == FreshRoots(a1, pRoots, calls + 1,
                         [i \in 1..Len(pRoots) |-> MergeGroups(vg[i], unfr)], mut)
         d == _dup_scopes(f[1], pRoots, f[2], pPaths)
     IN /\ arena' = d[1]
        /\ cur' = d[2]
  /\ calls' = calls + 1
  /\ UNCHANGED <<pc, pIn, InF, OutF, RngF, pRoots, pPaths, vg, rngCount, puts, repOut,
                 repCount, oVal, writes>>
  /\ UNCHANGED dedupVars
  /\ UNCHANGED extVars
  /\ UNCHANGED axVarsT
  /\ UNCHANGED rngVarsT

\* the payload writes a variable through an inner scope (Scope.put_variable:
\* the scope must be valid, the collection mutable and not frozen)
InnerPut(x, c) ==
  /\ pc = "payload"
  /\ repOut.err = {}
  /\ puts < MaxPuts
  /\ x \in 1..Len(arena)
  /\ arena[x].valid
  /\ LET r == RootOf(arena, x)
     IN /\ c \in arena[r].mut
        /\ c \in DOMAIN arena[r].vs => ~arena[r].vs[c].fz
        /\ arena' = [arena EXCEPT ![r].vs = (c :> [v |-> 1, fz |-> FALSE]) @@ arena[r].vs]
  /\ puts' = puts + 1
  /\ UNCHANGED <<pc, pIn, InF, OutF, RngF, pRoots, pPaths, vg, rngCount, cur, calls,
                 repOut, repCount, oVal, writes>>
  /\ UNCHANGED dedupVars
  /\ UNCHANGED extVars
  /\ UNCHANGED axVarsT
  /\ UNCHANGED rngVarsT

RECURSIVE RepackLoopMutant(_, _, _, _)
RepackLoopMutant(ar, roots, out, acc) ==
  IF roots = <<>> THEN [ar |-> ar, err |-> {}, groups |-> acc]
  ELSE
    LET r == Head(roots)
        ar1 == Invalidate(ar, <<r>>)
        mv == [c \in DOMAIN ar1[r].vs |-> ar1[r].vs[c].v]
        og == group_collections(mv, out \o <<Cols>>)
        remainder == DOMAIN og[Len(og)]
    IN IF remainder # {} THEN [ar |-> ar1, err |-> remainder, groups |-> acc]
       ELSE RepackLoopMutant(ar1, Tail(roots), out, Append(acc, SubSeq(og, 1, Len(og) - 1)))

\* the `for inner_scope in inner_scopes` loop of repack
RECURSIVE RepackLoop(_, _, _, _)
RepackLoop(ar, roots, out, acc) ==
  IF roots = <<>> THEN [ar |-> ar, err |-> {}, groups |-> acc]
  ELSE
    LET r == Head(roots)
        ar1 == Invalidate(ar, <<r>>)
        mv == [c \in {c2 \in DOMAIN ar1[r].vs : ~ar1[r].vs[c2].fz} |-> ar1[r].vs[c].v]
        og == group_collections(mv, out \o <<Cols>>)
        remainder == DOMAIN og[Len(og)]
    IN IF remainder # {} THEN [ar |-> ar1, err |-> remainder, groups |-> acc]
       ELSE RepackLoop(ar1, Tail(roots), out, Append(acc, SubSeq(og, 1, Len(og) - 1)))

\* the payload calls repack(inner_scope_tree) on the current inner scopes
Repack ==
  /\ pc = "payload"
  /\ repOut.err = {}
  /\ calls > 0
  /\ repCount < MaxRepacks
  /\ LET d == _dedup_scopes(InnerParents(arena), InnerNames(arena), cur)
         ok == [i \in 1..Len(d.paths) |-> d.paths[i][2]] = [i \in 1..Len(pPaths) |-> pPaths[i][2]]
         l == RepackLoop(arena, d.roots, OutF, <<>>)
     IN IF ~(d.ok /\ ok)
        THEN /\ repOut' = [err |-> {"AssertionError"}, ok |-> FALSE, groups |-> <<>>]
             /\ UNCHANGED arena
        ELSE /\ arena' = l.ar
             /\ repOut' = [err |-> l.err, ok |-> l.err = {}, groups |-> l.groups]
  /\ repCount' = repCount + 1
  /\ UNCHANGED <<pc, pIn, InF, OutF, RngF, pRoots, pPaths, vg, rngCount, cur, calls, puts,
                 oVal, writes>>
  /\ UNCHANGED dedupVars
  /\ UNCHANGED extVars
  /\ UNCHANGED axVarsT
  /\ UNCHANGED rngVarsT

RECURSIVE OuterTop(_)
OuterTop(n) == IF OuterParent[n] = 0 THEN n ELSE OuterTop(OuterParent[n])

GroupValue(groups, i, c) ==
  LET g == CHOOSE g \in 1..Len(groups[i]) : c \in DOMAIN groups[i][g] IN groups[i][g][c]

\* the collections of a group in dict order: the inner variables pass through
\* jax.tree_map, which rebuilds the dict with sorted keys
ColOrder(S) == IF S = Cols THEN <<"params", "stats">>
               ELSE IF S = {} THEN <<>> ELSE <<CHOOSE c \in S : TRUE>>

RECURSIVE CatSeqs(_)
CatSeqs(ss) == IF ss = <<>> THEN <<>> ELSE Head(ss) \o CatSeqs(Tail(ss))

\* the put_variable calls of the write-back loop, in order, as <<i, c>>:
\* `for scope, groups in zip(scopes, ...): for group: for col_name in group`
WriteSeq(roots, groups) ==
  CatSeqs([i \in 1..Len(roots) |->
             CatSeqs([g \in 1..Len(groups[i]) |->
                        LET o == ColOrder(DOMAIN groups[i][g])
                        IN [k \in 1..Len(o) |-> <<i, o[k]>>]])])

\* the number of put_variable calls that succeed: scope.put_variable raises
\* ValueError on the first collection the outer root cannot mutate
WrittenPrefix(roots, groups, rm) ==
  LET ws == WriteSeq(roots, groups)
      bad == {k \in 1..Len(ws) : ws[k][2] \notin rm}
  IN IF bad = {} THEN Len(ws) ELSE (CHOOSE k \in bad : \A k2 \in bad : k <= k2) - 1

WriteBackMutant(roots, groups, n) ==
  {<<OuterTop(roots[WriteSeq(roots, groups)[k][1]]), WriteSeq(roots, groups)[k][2]>> : k \in 1..n}

\* the (scope, collection) pairs of the first n put_variable calls of the write-back
WriteBack(roots, groups, n) ==
  {<<roots[WriteSeq(roots, groups)[k][1]], WriteSeq(roots, groups)[k][2]>> : k \in 1..n}

WriteBackRaises(roots, groups, rm) ==
  \E k \in 1..Len(WriteSeq(roots, groups)) : WriteSeq(roots, groups)[k][2] \notin rm

\* fn returns (y, repack(...)); the finally block invalidates inner_scopes,
\* then the output collections are written to their canonical scopes in order
\* until a put_variable raises
PayloadReturn ==
  /\ pc = "payload"
  /\ repOut.ok
  /\ arena' = Invalidate(arena, cur)
  /\ LET ws == WriteSeq(pRoots, repOut.groups)
         np == WrittenPrefix(pRoots, repOut.groups, rootMut)
         done == {ws[k] : k \in 1..np}
     IN /\ writes' = writes \cup WriteBack(pRoots, repOut.groups, np)
        /\ oVal' = [m \in OuterNodes |->
                      [c \in Cols |->
                         IF \E d \in done : pRoots[d[1]] = m /\ d[2] = c
                         THEN GroupValue(repOut.groups, CHOOSE i \in 1..Len(pRoots) : pRoots[i] = m, c)
                         ELSE oVal[m][c]]]
        /\ pc' = IF WriteBackRaises(pRoots, repOut.groups, rootMut) THEN "wbraised" ELSE "done"
  /\ UNCHANGED <<pIn, InF, OutF, RngF, pRoots, pPaths, vg, rngCount, cur, calls, puts,
                 repOut, repCount>>
  /\ UNCHANGED dedupVars
  /\ UNCHANGED extVars
  /\ UNCHANGED axVarsT
  /\ UNCHANGED rngVarsT

\* fn raises (possibly the error of repack); the finally block invalidates inner_scopes
PayloadRaise ==
  /\ pc = "payload"
  /\ arena' = Invalidate(arena, cur)
  /\ pc' = "raised"
  /\ UNCHANGED <<pIn, InF, OutF, RngF, pRoots, pPaths, vg, rngCount, cur, calls, puts,
                 repOut, repCount, oVal, writes>>
  /\ UNCHANGED dedupVars
  /\ UNCHANGED extVars
  /\ UNCHANGED axVarsT
  /\ UNCHANGED rngVarsT

NextPack ==
  \/ PackEnter
  \/ \E unfr \in SUBSET Cols : ScopeFn(unfr)
  \/ \E x \in 1..Len(arena), c \in Cols : InnerPut(x, c)
  \/ Repack
  \/ PayloadReturn
  \/ PayloadRaise

SpecPack == InitPack /\ [][NextPack]_vars

SpecPackMut == InitPackMut /\ [][NextPack]_vars

\* C3: at every instant all live inner scopes, including the intermediate
\* scopes _dup_scopes creates along the paths, belong to the generation created
\* by the latest scope_fn call.
C3_OneLiveGeneration ==
  \A j \in 1..Len(arena) : arena[j].valid => arena[j].gen = calls

\* C4: once the payload has returned or raised, no inner scope is still valid.
C4_NoLiveInnerAfterPack ==
  pc \in {"done", "raised", "wbraised"} => \A j \in 1..Len(arena) : ~arena[j].valid

\* the inner root scopes of the current inner scope tree, in order
CurRoots == OrderedSet(SelectSeq(cur, LAMBDA x : arena[x].parent = 0))
Offending(r) ==
  {c \in DOMAIN arena[r].vs : ~arena[r].vs[c].fz /\ \A i \in 1..Len(OutF) : c \notin OutF[i]}

\* C5: repack raises the unmapped-output-variables error exactly when an inner
\* root holds a non-frozen collection matching no out filter; the error names
\* exactly those collections (of the first such root); otherwise it returns one
\* group per out filter for each canonical scope.
C5_RepackUnmapped ==
  [][repCount' = repCount + 1 =>
       /\ (repOut'.err # {}) <=> (\E k \in 1..Len(CurRoots) : Offending(CurRoots[k]) # {})
       /\ repOut'.err # {} =>
            \E k \in 1..Len(CurRoots) :
               /\ Offending(CurRoots[k]) # {}
               /\ \A k2 \in 1..(k - 1) : Offending(CurRoots[k2]) = {}
               /\ repOut'.err = Offending(CurRoots[k])
       /\ repOut'.err = {} =>
            /\ Len(repOut'.groups) = Len(pRoots)
            /\ \A k \in 1..Len(pRoots) : Len(repOut'.groups[k]) = Len(OutF)]_vars

C5_Witness == repCount > 0 /\ repOut.err # {} /\ Len(pRoots) > 1

\* C6: a collection matching no out filter is frozen in the groups handed to the
\* payload, no put_variable is issued for it and its outer value is unchanged.
C6_InOnlyFrozenAndUntouched ==
  /\ pc \in {"payload", "done", "raised", "wbraised"} =>
       \A i \in 1..Len(vg) : \A g \in 1..Len(vg[i]) : \A c \in DOMAIN vg[i][g] :
          c \notin UnionFilters(OutF) => vg[i][g][c].fz
  /\ \A w \in writes : w[2] \in UnionFilters(OutF)
  /\ \A n \in OuterNodes, c \in Cols : c \notin UnionFilters(OutF) => oVal[n][c] = 0

C6_Witness ==
  /\ pc = "done" /\ puts > 0 /\ writes # {}
  /\ \E i \in 1..Len(vg) : \E g \in 1..Len(vg[i]) : \E c \in DOMAIN vg[i][g] :
        c \notin UnionFilters(OutF)

\* C7: no outer scope is written before the payload has returned normally, and
\* writes go only to canonical scopes, which are scopes of the input tree.
C7_OuterWritesOnlyAtEnd ==
  /\ pc \notin {"done", "wbraised"} => writes = {}
  /\ \A w \in writes : w[1] \in Range(pRoots) /\ w[1] \in Range(pIn)

C7_Witness == pc = "done" /\ writes # {} /\ \E i \in 1..Len(pIn) : pIn[i] \notin Range(pRoots)

\* ------------------------------------------------------------------
\* Batch-size inference of vmap.inner and scan-length inference of scan.inner
\* ------------------------------------------------------------------
\* an axis of None is -1; every mapped axis is 0 and a leaf is its size on axis 0
NoneAxis == -1
LeafSizes == {4, 5}
\* Bound on the number of leaves of one argument pytree.
MaxLeaves == 2
\* explicit axis_size / length used in the model (0 stands for None)
ExplicitSize == 4

RECURSIVE FlattenLeaves(_)
FlattenLeaves(xs) == IF xs = <<>> THEN <<>> ELSE Head(xs) \o FlattenLeaves(Tail(xs))

\* find_axis_size / find_length: the size of the FIRST leaf of x on the axis, or ()
FindAxisSize(axis, leaves) ==
  IF axis # NoneAxis /\ leaves # <<>> THEN {leaves[1]} ELSE {}

\* set(jax.tree_leaves(jax.tree_multimap(find_axis_size, axes, trees))) for the
\* arguments: a single in_axes applies to the whole args tuple
ArgAxisSizes(inAx, args) ==
  IF inAx.all THEN FindAxisSize(inAx.ax, FlattenLeaves(args))
  ELSE UNION {FindAxisSize(inAx.ax[i], args[i]) : i \in 1..Len(args)}

\* vmap.inner: variable groups (one scope) and arguments
VmapAxisSizes(varAx, vgs, inAx, args) ==
  UNION {FindAxisSize(varAx[g], vgs[g]) : g \in 1..Len(vgs)} \cup ArgAxisSizes(inAx, args)

\* the if / elif chain that fixes d_axis_size / d_length
DecideSize(sizes, given) ==
  IF given = 0 /\ Cardinality(sizes) = 1 THEN [kind |-> "size", size |-> CHOOSE x \in sizes : TRUE, found |-> sizes]
  ELSE IF Cardinality(sizes) > 1 THEN [kind |-> "inconsistent", size |-> 0, found |-> sizes]
  ELSE IF given = 0 THEN [kind |-> "unspecified", size |-> 0, found |-> sizes]
  ELSE [kind |-> "size", size |-> given, found |-> sizes]

\* axes_scan.scan(..., length=length): the number of iterations; the scanned
\* inputs (all leaves of the mapped arguments and the split rngs, of leading
\* size d_length) must agree with it, else the scan primitive fails (-1)
ScanIterations(given, d, inAx, args) ==
  LET mapped == IF inAx.all THEN (IF inAx.ax # NoneAxis THEN Range(FlattenLeaves(args)) ELSE {})
                ELSE UNION {IF inAx.ax[i] # NoneAxis THEN Range(args[i]) ELSE {} : i \in 1..Len(args)}
      xs == mapped \cup {d}
  IN IF given # 0 THEN (IF xs \subseteq {given} THEN given ELSE -1)
  ELSE IF Cardinality(xs) = 1 THEN d ELSE -1

LeafSeqs == UNION {[1..k -> LeafSizes] : k \in 1..MaxLeaves}

InitAxis ==
  /\ dIn = <<>> /\ dRes = NoDedup /\ dPhase = "init" /\ dupOut = <<>> /\ arena = <<>>
  /\ PackIdle
  /\ RngIdle
  /\ ExtIdle
  /\ axMode \in {"vmap", "scan"}
  /\ axArgs \in [1..2 -> LeafSeqs]
  /\ axInAxes \in {[all |-> TRUE, ax |-> 0], [all |-> TRUE, ax |-> NoneAxis],
                   [all |-> FALSE, ax |-> <<0, 0>>]}
  /\ axVars \in {<<>>, <<<<5>>>>}
  /\ axVarAxes \in {[g \in 1..Len(axVars) |-> 0], [g \in 1..Len(axVars) |-> NoneAxis]}
  /\ axSize \in {0, ExplicitSize}
  /\ axRes = NoAxRes

\* vmap.inner / scan.inner up to the split of the rngs (and, for scan, the loop)
AxisRun ==
  /\ axRes.kind = "none"
  /\ LET sizes == IF axMode = "vmap" THEN VmapAxisSizes(axVarAxes, axVars, axInAxes, axArgs)
                  ELSE ArgAxisSizes(axInAxes, axArgs)
         r == DecideSize(sizes, axSize)
     IN axRes' = [kind |-> r.kind, size |-> r.size, found |-> r.found,
                  splits |-> IF r.kind = "size" THEN r.size ELSE 0,
                  iters |-> IF axMode = "scan" /\ r.kind = "size"
                            THEN ScanIterations(axSize, r.size, axInAxes, axArgs) ELSE 0]
  /\ UNCHANGED <<axMode, axArgs, axInAxes, axVars, axVarAxes, axSize>>
  /\ UNCHANGED dedupVars
  /\ UNCHANGED extVars
  /\ UNCHANGED packVars
  /\ UNCHANGED arena
  /\ UNCHANGED rngVarsT

NextAxis == AxisRun

SpecAxis == InitAxis /\ [][NextAxis]_vars

\* every leaf mapped on an axis, across the variable groups (vmap only) and the arguments
MappedLeafSizes(withVars) ==
  (IF withVars THEN UNION {IF axVarAxes[g] # NoneAxis THEN Range(axVars[g]) ELSE {} : g \in 1..Len(axVars)}
   ELSE {})
  \cup (IF axInAxes.all THEN (IF axInAxes.ax # NoneAxis THEN Range(FlattenLeaves(axArgs)) ELSE {})
        ELSE UNION {IF axInAxes.ax[i] # NoneAxis THEN Range(axArgs[i]) ELSE {} : i \in 1..Len(axArgs)})

\* the size-inference contract shared by C8 and C9
SizeContract(withVars) ==
  LET all == MappedLeafSizes(withVars) IN
  /\ Cardinality(all) > 1 => axRes.kind = "inconsistent" /\ axRes.found = all
  /\ Cardinality(all) = 1 /\ axSize = 0 => axRes.kind = "size" /\ {axRes.size} = all
  /\ all = {} /\ axSize = 0 => axRes.kind = "unspecified"
  /\ Cardinality(all) <= 1 /\ axSize # 0 => axRes.kind = "size" /\ axRes.size = axSize

\* C8: vmap's batch size is inferred from the leading size of every leaf mapped
\* on an axis: one size is used, several raise 'Inconsistent batch axis sizes'
\* listing them, none without axis_size raises, an explicit axis_size is used.
C8_VmapAxisSize ==
  (axMode = "vmap" /\ axRes.kind # "none") => SizeContract(TRUE)

\* C9: scan's length is inferred like vmap's batch size from the arguments, and
\* the length so determined is the number of iterations (when the scan runs)
\* and of rng splits.
C9_ScanLength ==
  (axMode = "scan" /\ axRes.kind # "none") =>
    /\ SizeContract(FALSE)
    /\ axRes.kind = "size" /\ axRes.iters # -1 => axRes.iters = axRes.size /\ axRes.splits = axRes.size

\* ------------------------------------------------------------------
\* RNG streams: make_rng in pack.wrapper, split_rngs in vmap.inner / scan.inner
\* ------------------------------------------------------------------
\* Bound on the batch size / scan length.
MaxBatch == 3

\* scope.make_rng(kind): a fresh generator derived for the stream of the scope
MakeRng(n, k) == <<n, k>>

\* rng_groups of one scope: group_collections(scope.rngs, rng_filters), each
\* stream replaced by scope.make_rng(kind)
RngGroups(n, rf) ==
  LET gs == group_collections([q \in RngKinds |-> 0], rf)
  IN [g \in 1..Len(gs) |-> [k \in DOMAIN gs[g] |-> MakeRng(n, k)]]

\* random.split(rng, d): d generators derived from rng
Split(key, d) == [i \in 1..d |-> <<key, i>>]

SplitRngsMutant(groups, flags, d) ==
  [g \in 1..Len(groups) |->
     IF flags[g] THEN [k \in DOMAIN groups[g] |-> [i \in 1..d |-> groups[g][k]]] ELSE groups[g]]

\* split_rngs: tree_map(split_fn, rng_group) if split else rng_group
SplitRngs(groups, flags, d) ==
  [g \in 1..Len(groups) |->
     IF flags[g] THEN [k \in DOMAIN groups[g] |-> Split(groups[g][k], d)] ELSE groups[g]]

\* what index i of the mapped function sees: rng_axes is 0 for split groups
\* (slice i) and None / broadcast for unsplit groups (the whole value)
PerIndex(sg, flags, d) ==
  LET kinds == UNION {DOMAIN sg[g] : g \in 1..Len(sg)}
      grp(k) == CHOOSE g \in 1..Len(sg) : k \in DOMAIN sg[g]
  IN [k \in kinds |-> [i \in 1..d |-> IF flags[grp(k)] THEN sg[grp(k)][k][i] ELSE sg[grp(k)][k]]]

InitRng ==
  /\ dIn = <<>> /\ dRes = NoDedup /\ dPhase = "init" /\ dupOut = <<>> /\ arena = <<>>
  /\ AxIdle
  /\ ExtIdle
  /\ pc = "enter"
  /\ pIn \in SeqsUpTo(OuterNodes, MaxPackHandles) \ {<<>>}
  /\ InF = <<>> /\ OutF = <<>>
  /\ RngF \in {<<{"params"}>>, <<{"params"}, {"dropout"}>>, <<{"params"}, RngKinds>>}
  /\ rFlags \in [1..Len(RngF) -> BOOLEAN]
  /\ rN \in 1..MaxBatch
  /\ pRoots = <<>> /\ pPaths = <<>> /\ vg = <<>>
  /\ rngCount = [n \in OuterNodes |-> [k \in RngKinds |-> 0]]
  /\ cur = <<>> /\ calls = 0 /\ puts = 0 /\ repOut = NoRepack /\ repCount = 0
  /\ oVal = [n \in OuterNodes |-> [c \in Cols |-> 0]] /\ writes = {}
  /\ rGroups = <<>> /\ rPer = <<>>

\* pack.wrapper: dedup and make_rng for every stream of every rng group
RngEnter ==
  /\ pc = "enter"
  /\ LET d == _dedup_scopes(OuterParent, OuterName, pIn)
     IN /\ d.ok
        /\ pRoots' = d.roots
        /\ pPaths' = d.paths
        /\ rngCount' = MakeRngCounts(RngScopes(d.roots, pIn), RngF)
        /\ rGroups' = [i \in 1..Len(RngScopes(d.roots, pIn)) |-> RngGroups(RngScopes(d.roots, pIn)[i], RngF)]
  /\ pc' = "payload"
  /\ UNCHANGED <<pIn, InF, OutF, RngF, vg, arena, cur, calls, puts, repOut, repCount, oVal,
                 writes, rFlags, rN, rPer>>
  /\ UNCHANGED dedupVars
  /\ UNCHANGED extVars
  /\ UNCHANGED axVarsT

\* vmap.inner / scan.inner: rng_groups_xs = tuple(map(split_rngs, rng_groups_xs)),
\* then the mapped / scanned function at index i
RngSplit ==
  /\ pc = "payload"
  /\ rPer' = [i \in 1..Len(rGroups) |-> PerIndex(SplitRngs(rGroups[i], rFlags, rN), rFlags, rN)]
  /\ pc' = "split"
  /\ UNCHANGED <<pIn, InF, OutF, RngF, pRoots, pPaths, vg, rngCount, arena, cur, calls, puts,
                 repOut, repCount, oVal, writes, rFlags, rN, rGroups>>
  /\ UNCHANGED dedupVars
  /\ UNCHANGED extVars
  /\ UNCHANGED axVarsT

NextRng == RngEnter \/ RngSplit

SpecRng == InitRng /\ [][NextRng]_vars

\* the streams all of whose matching split_rngs entries have the given flag
StreamsWithFlag(b) ==
  {k \in UnionFilters(RngF) : \A f \in 1..Len(RngF) : k \in RngF[f] => rFlags[f] = b}

\* C10: a split stream gives each of the N indices a distinct generator, an
\* unsplit stream the same generator at every index, and every selected stream
\* is derived with make_rng exactly once per canonical scope.
C10_RngSplitAndDerivation ==
  /\ pc # "enter" =>
       \A n \in OuterNodes, k \in RngKinds :
          rngCount[n][k] = IF n \in Range(pRoots) /\ k \in UnionFilters(RngF) THEN 1 ELSE 0
  /\ pc = "split" =>
       \A i \in 1..Len(rPer) :
          /\ \A k \in StreamsWithFlag(TRUE) :
               \A a, b \in 1..rN : a # b => rPer[i][k][a] # rPer[i][k][b]
          /\ \A k \in StreamsWithFlag(FALSE) :
               \A a, b \in 1..rN : rPer[i][k][a] = rPer[i][k][b]

C10_Witness ==
  /\ pc = "split" /\ rN > 1 /\ Len(pIn) > Len(pRoots)
  /\ StreamsWithFlag(TRUE) # {} /\ StreamsWithFlag(FALSE) # {}

\* C13: every inner scope created by scope_fn is mutable (through its root)
\* for exactly the collections in both the union of the out filters and the
\* outer root's mutable filter, and no inner scope holds a write outside it.
C13_InnerMutability ==
  \A j \in 1..Len(arena) :
     /\ arena[RootOf(arena, j)].mut = UnionFilters(OutF) \cap rootMut
     /\ \A c \in DOMAIN arena[j].vs : arena[j].vs[c].v = 1 => c \in arena[j].mut

C13_Witness ==
  /\ puts > 0 /\ rootMut # Cols
  /\ \E j \in 1..Len(arena) : arena[j].parent # 0
  /\ \E i \in 1..Len(OutF) : OutF[i] \ rootMut # {}

\* ------------------------------------------------------------------
\* scan: lift.scan(fn, variable_broadcast='params', variable_carry='stats')
\* on the outer root scope 1, no variable_axes; the body increments the carry
\* collection and may write the broadcast collection
\* ------------------------------------------------------------------
\* Bound on the loop length.
MaxScanLen == 3

\* (variable_broadcast, variable_carry) + variable_in_groups / variable_out_groups
ScanFilters == <<{"params"}, {"stats"}>>

\* scope._variables of the outer scope for the scan call
ScanOuterVars ==
  [c \in (IF scHasP THEN Cols ELSE {"stats"}) |-> [v |-> oVal[1][c], fz |-> c \notin rootMut]]

ReinsertBroadcastMutant(inG, outG) == outG

\* `for col in in_group: if col not in out_group: out_group[col] = in_group[col]`
ReinsertBroadcast(inG, outG) ==
  [c \in DOMAIN inG \cup DOMAIN outG |-> IF c \in DOMAIN outG THEN outG[c] ELSE inG[c]]

DropFrozenMutant(g) == g

\* `if isinstance(col, FrozenDict): del out_group[name]`
DropFrozen(g) == [c \in {c2 \in DOMAIN g : ~g[c2].fz} |-> g[c]]

CarryOutMutant(og) == og[1]

\* carry_vars = out_vars_xs_t[1]
CarryOut(og) == og[2]

\* the xs index an iteration works on (reverse scans from the end)
XsIndex(i, len, rev) == IF rev THEN len - i + 1 ELSE i

InitScan ==
  /\ dIn = <<>> /\ dRes = NoDedup /\ dPhase = "init" /\ dupOut = <<>> /\ arena = <<>>
  /\ pc = "idle" /\ pIn = <<>> /\ InF = <<>> /\ OutF = <<>> /\ RngF = <<>>
  /\ pRoots = <<>> /\ pPaths = <<>> /\ vg = <<>>
  /\ rngCount = [n \in OuterNodes |-> [k \in RngKinds |-> 0]]
  /\ cur = <<>> /\ calls = 0 /\ puts = 0 /\ repOut = NoRepack /\ repCount = 0
  /\ writes = {}
  /\ scV0 \in Vals
  /\ oVal = [n \in OuterNodes |-> [c \in Cols |-> IF c = "stats" THEN scV0 ELSE 0]]
  /\ AxIdle
  /\ RngIdle
  /\ rootMut \in {Cols, {"stats"}}
  /\ scPhase = "enter"
  /\ scLen \in 1..MaxScanLen
  /\ scRev \in BOOLEAN
  /\ scHasP \in BOOLEAN
  /\ scI = 0 /\ scBIn = EmptyVars /\ scCarry = EmptyVars /\ scBFirst = EmptyVars
  /\ scBSame = TRUE /\ scSeen = <<>> /\ scBWritten = FALSE /\ scFinalB = EmptyVars
  /\ scBSup = TRUE
  /\ TrIdle

\* pack.wrapper groups (freezing in-only collections) and scan.inner's split of
\* variable_groups_xs into broadcast_vars and carry_vars
ScanEnter ==
  /\ scPhase = "enter"
  /\ LET g == FreezeInOnly(group_collections(ScanOuterVars, ScanFilters), ScanFilters)
     IN /\ scBIn' = g[1]
        /\ scCarry' = g[2]
  /\ scSeen' = [x \in 1..scLen |-> 0]
  /\ scPhase' = "loop"
  /\ UNCHANGED <<scLen, scRev, scHasP, scI, scBFirst, scBSame, scBWritten, scFinalB, scBSup, scV0>>
  /\ UNCHANGED <<dIn, dRes, dPhase, dupOut, arena, packVars, axVarsT, rngVarsT, rootMut>>
  /\ UNCHANGED trVarsT

\* one call of `scanned`: scope_fn, the body fn, repack_fn, re-insertion of the
\* broadcast collections missing from the output
ScanStep(writeP) ==
  /\ scPhase = "loop"
  /\ scI < scLen
  /\ LET vs == MergeGroups(<<scBIn, scCarry>>, {})
         mut == InnerMutable(rootMut, ScanFilters)
         canP == "params" \in mut /\ ("params" \in DOMAIN vs => ~vs["params"].fz)
         wp == writeP /\ canP
         vs1 == [c \in DOMAIN vs |-> IF c = "stats" THEN [v |-> vs[c].v + 1, fz |-> FALSE] ELSE vs[c]]
         vs2 == IF wp THEN ("params" :> [v |-> 1, fz |-> FALSE]) @@ vs1 ELSE vs1
         mv == [c \in {c2 \in DOMAIN vs2 : ~vs2[c2].fz} |-> [v |-> vs2[c].v, fz |-> FALSE]]
         og == group_collections(mv, ScanFilters \o <<Cols>>)
         bOut == ReinsertBroadcast(scBIn, og[1])
     IN /\ "stats" \in DOMAIN vs /\ "stats" \in mut
        /\ writeP => canP
        /\ scSeen' = [scSeen EXCEPT ![XsIndex(scI + 1, scLen, scRev)] = vs["stats"].v]
        /\ scCarry' = CarryOut(og)
        /\ scBFirst' = IF scI = 0 THEN bOut ELSE scBFirst
        /\ scBSame' = (scBSame /\ DOMAIN bOut = DOMAIN scBIn)
        /\ scBSup' = (scBSup /\ DOMAIN scBIn \subseteq DOMAIN bOut)
        /\ scBWritten' = (scBWritten \/ wp)
  /\ scI' = scI + 1
  /\ UNCHANGED <<scPhase, scLen, scRev, scHasP, scBIn, scFinalB, scV0>>
  /\ UNCHANGED <<dIn, dRes, dPhase, dupOut, arena, packVars, axVarsT, rngVarsT, rootMut>>
  /\ UNCHANGED trVarsT

\* after the loop: drop frozen broadcast collections, then pack.wrapper's write-back
ScanFinish ==
  /\ scPhase = "loop"
  /\ scI = scLen
  /\ LET fb == DropFrozen(scBFirst)
         out == [c \in DOMAIN fb \cup DOMAIN scCarry |->
                   IF c \in DOMAIN scCarry THEN scCarry[c].v ELSE fb[c].v]
     IN /\ scFinalB' = fb
        /\ writes' = writes \cup {<<1, c>> : c \in DOMAIN out}
        /\ oVal' = [oVal EXCEPT ![1] = [c \in Cols |-> IF c \in DOMAIN out THEN out[c] ELSE oVal[1][c]]]
  /\ scPhase' = "done"
  /\ UNCHANGED <<scLen, scRev, scHasP, scI, scBIn, scCarry, scBFirst, scBSame, scSeen, scBWritten,
                 scBSup, scV0>>
  /\ UNCHANGED <<dIn, dRes, dPhase, dupOut, arena, pc, pIn, InF, OutF, RngF, pRoots, pPaths,
                 vg, rngCount, cur, calls, puts, repOut, repCount, axVarsT, rngVarsT, rootMut>>
  /\ UNCHANGED trVarsT

NextScan ==
  \/ ScanEnter
  \/ \E w \in BOOLEAN : ScanStep(w)
  \/ ScanFinish

SpecScan == InitScan /\ [][NextScan]_vars

\* C11 (as stated): a broadcast collection the body never writes keeps its
\* outer value, is absent from the groups scan returns to pack, and every
\* iteration's broadcast output has exactly its input's collections.
C11_BroadcastPassThrough ==
  /\ (scPhase = "done" /\ ~scBWritten) =>
        /\ oVal[1]["params"] = 0
        /\ "params" \notin DOMAIN scFinalB
  /\ scBSame

\* C11 (amended): a broadcast collection the body never writes keeps its outer
\* value; it is absent from the returned groups exactly when it is held frozen
\* (otherwise it is returned and written back with its own value); every
\* iteration's broadcast output contains all of its input's collections.
C11_BroadcastPassThroughAmended ==
  /\ (scPhase = "done" /\ ~scBWritten) =>
        /\ oVal[1]["params"] = 0
        /\ ("params" \in DOMAIN scFinalB) <=> (scHasP /\ "params" \in rootMut)
  /\ scBSup

C11_Witness == scPhase = "done" /\ ~scBWritten /\ scHasP /\ scLen > 1

\* C12: after L steps of a body incrementing the carry collection by one, the
\* outer carry is v0 + L, and the iteration at xs index x saw v0 + x - 1
\* (v0 + L - x when reverse).
C12_ScanCarry ==
  scPhase = "done" =>
    /\ oVal[1]["stats"] = scV0 + scLen
    /\ \A x \in 1..scLen : scSeen[x] = scV0 + (IF scRev THEN scLen - x ELSE x - 1)

C12_Witness == scPhase = "done" /\ scRev /\ scLen > 1 /\ scV0 > 0

\* ------------------------------------------------------------------
\* transform(target='params', trans_in_fn, trans_out_fn, init, mutable,
\* variables) on one scope, called directly or through transform_module
\* ------------------------------------------------------------------
TrTarget == {"params"}

\* trans_in_fn / trans_out_fn of the model: non-identity views of the target
TransIn(g) == [c \in DOMAIN g |-> [g[c] EXCEPT !.v = @ + 10]]
TransOut(g) == [c \in DOMAIN g |-> [g[c] EXCEPT !.v = @ + 100]]

\* swap_collection.swap: `a = target[col_a] if col_a in target else {}`, same
\* for b, then target[col_b], target[col_a] = a, b (an empty dict is value 0)
SwapOf(c) == IF c = "params" THEN "stats" ELSE "params"
Swap(g) == [c \in Cols |-> IF SwapOf(c) \in DOMAIN g THEN g[SwapOf(c)] ELSE [v |-> 0, fz |-> FALSE]]

\* the trans_in_fn / trans_out_fn of the transform: swap for swap_collection
TrIn(g) == IF tSwap THEN Swap(g) ELSE TransIn(g)
TrOut(g) == IF tSwap THEN Swap(g) ELSE TransOut(g)

\* the target filter: (col_a, col_b) for swap_collection, else 'params'
TrTargetF == IF tSwap THEN Cols ELSE TrTarget

\* frozen_dict.unfreeze / freeze of a group
Unfreeze(g) == [c \in DOMAIN g |-> [g[c] EXCEPT !.fz = FALSE]]
Freeze(g) == [c \in DOMAIN g |-> [g[c] EXCEPT !.fz = TRUE]]

\* transform_module: is_init = target not in vs or not vs[target]
IsInit(vs) == "params" \notin DOMAIN vs \/ vs["params"] = 0

\* in_vars = (target, variables)
TrInFilters(v) == <<TrTargetF, v>>

\* out_vars = (target, variables) if is_target_out else ((), variables)
TrOutFilters(tout, v) == IF tout THEN <<TrTargetF, v>> ELSE <<{}, v>>

\* target = trans_in_fn(unfreeze(target)); if not is_target_out: target = freeze(target)
PrepTarget(t, tout) == IF tout THEN TrIn(Unfreeze(t)) ELSE Freeze(TrIn(Unfreeze(t)))

TrTout == tMutable \/ tInit

InitTr ==
  /\ dIn = <<>> /\ dRes = NoDedup /\ dPhase = "init" /\ dupOut = <<>> /\ arena = <<>>
  /\ PackIdle
  /\ AxIdle
  /\ RngIdle
  /\ rootMut = OuterRootMutable
  /\ ScanIdle
  /\ tPhase = "enter"
  /\ tSwap \in BOOLEAN
  \* swap_collection: transform((col_a, col_b), swap, swap, mutable=True)
  \* with the defaults init=False and variables=True
  /\ tDirect \in (IF tSwap THEN {TRUE} ELSE BOOLEAN)
  /\ tInit \in (IF tDirect /\ ~tSwap THEN BOOLEAN ELSE {FALSE})
  /\ tMutable \in (IF tSwap THEN {TRUE} ELSE BOOLEAN)
  /\ tV \in (IF tSwap THEN {Cols} ELSE {Cols, {"stats"}, {}})
  /\ \E p \in {-1, 0, 5}, st \in {0, 2} :
       tOuter = IF p = -1 THEN ("stats" :> st) ELSE ("params" :> p) @@ ("stats" :> st)
  /\ tOuter0 = tOuter
  /\ tRuns = 0 /\ tTarget = EmptyVars /\ tVarsPack = EmptyVars /\ tIn = <<>>
  /\ tRep1 = EmptyVars /\ tOutT = EmptyVars

\* transform_module.wrapper (init detection), pack.wrapper up to fn, and
\* transform's wrapper up to its first scope_fn call
TrEnter ==
  /\ tPhase = "enter"
  /\ LET init == IF tDirect THEN tInit ELSE IsInit(tOuter)
         tout == tMutable \/ init
         g == FreezeInOnly(group_collections([c \in DOMAIN tOuter |-> [v |-> tOuter[c], fz |-> FALSE]],
                                             TrInFilters(tV)),
                           TrOutFilters(tout, tV))
     IN /\ tInit' = init
        /\ tVarsPack' = g[2]
        /\ tTarget' = IF init THEN g[1] ELSE PrepTarget(g[1], tout)
        /\ tPhase' = IF init THEN "run1" ELSE "run2"
  /\ UNCHANGED <<tDirect, tMutable, tV, tOuter, tOuter0, tRuns, tIn, tRep1, tOutT, tSwap>>
  /\ UNCHANGED <<dIn, dRes, dPhase, dupOut, arena, packVars, axVarsT, rngVarsT, rootMut, scanVarsT>>

\* one run of the payload: scope_fn(((target, variables),)), fn (which may
\* write the target and the other collection), repack; after the init run the
\* target is passed through trans_out_fn, then prepared for the second run;
\* after the last run the outputs are written back by pack.wrapper
TrRun(wP, wS) ==
  /\ tPhase \in {"run1", "run2"}
  /\ LET out == TrOutFilters(TrTout, tV)
         groups == <<tTarget, tVarsPack>>
         vs == MergeGroups(groups, {})
         mut == InnerMutable(rootMut, out)
         can(c) == c \in mut /\ (c \in DOMAIN vs => ~vs[c].fz)
         vs1 == IF wS THEN [vs EXCEPT !["stats"].v = @ + 1] ELSE vs
         vs2 == IF wP THEN ("params" :> [v |-> IF "params" \in DOMAIN vs THEN vs["params"].v + 1 ELSE 1,
                                          fz |-> FALSE]) @@ vs1
                ELSE vs1
         mv == [c \in {c2 \in DOMAIN vs2 : ~vs2[c2].fz} |-> [v |-> vs2[c].v, fz |-> FALSE]]
         og == group_collections(mv, out \o <<Cols>>)
         outT == IF TrTout THEN TrOut(og[1]) ELSE og[1]
         \* `for name, value in collection.items(): scope.put_variable(...)`:
         \* an empty collection (value 0) issues no put_variable
         wr == {c \in DOMAIN outT : outT[c].v # 0} \cup {c \in DOMAIN og[2] : og[2][c].v # 0}
     IN /\ wP => can("params")
        /\ wS => can("stats")
        /\ tIn' = Append(tIn, groups)
        /\ IF DOMAIN og[Len(og)] # {}
           THEN /\ tPhase' = "raised"
                /\ UNCHANGED <<tTarget, tRep1, tOutT, tOuter, writes>>
           ELSE IF tPhase = "run1"
           THEN /\ tRep1' = og[1]
                /\ tTarget' = PrepTarget(TrOut(og[1]), TrTout)
                /\ tPhase' = "run2"
                /\ UNCHANGED <<tOutT, tOuter, writes>>
           ELSE /\ tOutT' = og[1]
                /\ tOuter' = [c \in DOMAIN tOuter \cup wr |->
                                IF c \in wr /\ c \in DOMAIN outT THEN outT[c].v
                                ELSE IF c \in wr THEN og[2][c].v
                                ELSE tOuter[c]]
                /\ writes' = writes \cup {<<1, c>> : c \in wr}
                /\ tPhase' = "done"
                /\ UNCHANGED <<tTarget, tRep1>>
  /\ tRuns' = tRuns + 1
  /\ UNCHANGED <<tDirect, tInit, tMutable, tV, tOuter0, tVarsPack, tSwap>>
  /\ UNCHANGED <<dIn, dRes, dPhase, dupOut, arena, pc, pIn, InF, OutF, RngF, pRoots, pPaths,
                 vg, rngCount, cur, calls, puts, repOut, repCount, oVal, axVarsT, rngVarsT,
                 rootMut, scanVarsT>>

NextTr ==
  \/ TrEnter
  \/ \E wP, wS \in BOOLEAN : TrRun(wP, wS)

SpecTr == InitTr /\ [][NextTr]_vars

\* C14: with init the payload runs twice: the second run sees trans_in_fn of
\* trans_out_fn of the target repacked after the first, and the same other
\* variables (the first run's other outputs are dropped); without init it runs
\* once; transform_module sets init exactly when the target is absent or
\* empty; without mutable and init the target is frozen and not written back.
C14_TransformInit ==
  (tPhase = "done" /\ ~tSwap) =>
    /\ tInit =>
         /\ tRuns = 2
         /\ DOMAIN tIn[2][1] = DOMAIN tRep1
         /\ \A c \in DOMAIN tRep1 : tIn[2][1][c].v = tRep1[c].v + 110 /\ ~tIn[2][1][c].fz
         /\ tIn[2][2] = tIn[1][2]
    /\ ~tInit => tRuns = 1
    /\ ~tDirect => (tInit <=> ("params" \notin DOMAIN tOuter0 \/ tOuter0["params"] = 0))
    /\ (~tMutable /\ ~tInit) =>
         /\ \A c \in DOMAIN tIn[1][1] : tIn[1][1][c].fz
         /\ <<1, "params">> \notin writes
         /\ ("params" \in DOMAIN tOuter0 => tOuter["params"] = tOuter0["params"])
         /\ ("params" \notin DOMAIN tOuter0 => "params" \notin DOMAIN tOuter)
    /\ (tMutable \/ tInit) => \A c \in DOMAIN tOutT : tOuter[c] = tOutT[c].v + 100

====
